---- MODULE Spec2Model ----
(***************************************************************************)
(* A model of kilo.c: the row buffer, the render/highlight engine, the     *)
(* cursor and viewport, the incremental search prompt, the key decoder,    *)
(* the quit confirmation and the terminal session.  Characters are C char  *)
(* values (ASCII codes), keys are the int values editorReadKey returns.    *)
(***************************************************************************)
EXTENDS Integers, Sequences, FiniteSets, TLC

(***************************************************************************)
(* Program constants.                                                      *)
(***************************************************************************)
KILO_TAB_STOP == 8
KILO_QUIT_TIMES == 3

BACKSPACE == 127
ARROW_LEFT == 1000
ARROW_RIGHT == 1001
ARROW_UP == 1002
ARROW_DOWN == 1003
DEL_KEY == 1004
HOME_KEY == 1005
END_KEY == 1006
PAGE_UP == 1007
PAGE_DOWN == 1008

HL_NORMAL == 0
HL_NUMBER == 1
HL_MATCH == 2

\* Character literals of the source.
TAB == 9
CR == 13
ESC == 27
SPACE == 32

\* CTRL_KEY(k) is (k) & 0x1f.
CTRL_KEY(k) == k % 32

CTRL_Q == CTRL_KEY(113)
CTRL_S == CTRL_KEY(115)
CTRL_F == CTRL_KEY(102)
CTRL_H == CTRL_KEY(104)
CTRL_L == CTRL_KEY(108)

\* isdigit() and iscntrl() of the C locale, on ASCII.
isdigit(c) == c >= 48 /\ c <= 57
iscntrl(c) == (c >= 0 /\ c < 32) \/ c = 127

\* A null pointer (saved_hl, E.filename, the prompt's result).
NULL == <<-1>>

(***************************************************************************)
(* Bounds of the model.                                                    *)
(***************************************************************************)
MaxRows == 2
MaxLen == 2
MaxQuery == 1
MaxDirty == 2
MaxScreenRows == 2
MaxScreenCols == 1
MaxStream == 4
EditRows == 3
EditLen == 2
RxLen == 8
FindRows == 3
FindLen == 2
FindQuery == 2
TallRows == 3
BarRows == 10
BarCols == 40
BarName == 21

\* The characters typed into the document, into the search prompt and into the
\* "Save as" prompt.
TextChars == {TAB, 49}
QueryChars == {49, SPACE}
NameChars == {49}

(***************************************************************************)
(* Key decoder.  A stream is what the successive read() calls find on the  *)
(* terminal: a byte, or TIMEOUT for a read that returns 0 after VTIME.  A  *)
(* read past the end of the stream times out as well.                      *)
(***************************************************************************)
Min(a, b) == IF a < b THEN a ELSE b

\* A read() that returns 0; not a value of a byte.
TIMEOUT == 256

\* read(STDIN_FILENO, ..., 1) == 1 at position i of the stream.
ReadOk(s, i) == i <= Len(s) /\ s[i] # TIMEOUT

\* The while loop of editorReadKey: wait until a byte arrives.
RECURSIVE WaitByte(_)
WaitByte(s) ==
    IF s # <<>> /\ s[1] = TIMEOUT THEN WaitByte(Tail(s)) ELSE s

\* The second switch with the cases of Home and End exchanged.
TildeKeyExchanged(d) ==
    CASE d = 49 -> END_KEY
      [] d = 51 -> DEL_KEY
      [] d = 52 -> HOME_KEY
      [] d = 53 -> PAGE_UP
      [] d = 54 -> PAGE_DOWN
      [] d = 55 -> END_KEY
      [] d = 56 -> HOME_KEY
      [] OTHER -> ESC

\* The second switch: ESC [ <digit> ~
TildeKey(d) ==
    CASE d = 49 -> HOME_KEY
      [] d = 51 -> DEL_KEY
      [] d = 52 -> END_KEY
      [] d = 53 -> PAGE_UP
      [] d = 54 -> PAGE_DOWN
      [] d = 55 -> HOME_KEY
      [] d = 56 -> END_KEY
      [] OTHER -> ESC

\* The switch on ESC [ <non-digit>.
BracketKey(l) ==
    CASE l = 65 -> ARROW_UP
      [] l = 66 -> ARROW_DOWN
      [] l = 67 -> ARROW_RIGHT
      [] l = 68 -> ARROW_LEFT
      [] l = 72 -> HOME_KEY
      [] l = 70 -> END_KEY
      [] OTHER -> ESC

\* The switch on ESC O <letter>.
OKey(l) ==
    CASE l = 72 -> HOME_KEY
      [] l = 70 -> END_KEY
      [] OTHER -> ESC

\* editorReadKey on a stream whose first byte has been delivered: the key
\* returned and the number of reads that took something off the stream.
editorReadKey(s) ==
    IF s[1] # ESC THEN [key |-> s[1], used |-> 1]
    ELSE IF ~ReadOk(s, 2) THEN [key |-> ESC, used |-> Min(2, Len(s))]
    ELSE IF ~ReadOk(s, 3) THEN [key |-> ESC, used |-> Min(3, Len(s))]
    ELSE IF s[2] = 91 THEN
        IF s[3] >= 48 /\ s[3] <= 57 THEN
            IF ~ReadOk(s, 4) THEN [key |-> ESC, used |-> Min(4, Len(s))]
            ELSE IF s[4] = 126 THEN [key |-> TildeKey(s[3]), used |-> 4]
            ELSE [key |-> ESC, used |-> 4]
        ELSE [key |-> BracketKey(s[3]), used |-> 3]
    ELSE IF s[2] = 79 THEN [key |-> OKey(s[3]), used |-> 3]
    ELSE [key |-> ESC, used |-> 3]

(***************************************************************************)
(* Render / highlight engine.                                              *)
(***************************************************************************)
\* editorUpdateSyntax: one tag per render character.
editorUpdateSyntax(row) ==
    [row EXCEPT !.hl = [i \in 1..row.rsize |->
        IF isdigit(row.render[i]) THEN HL_NUMBER ELSE HL_NORMAL]]

\* The inner while loop of editorUpdateRow: pad to the next tab stop.
RECURSIVE PadTab(_)
PadTab(r) == IF (Len(r) % KILO_TAB_STOP) # 0 THEN PadTab(Append(r, SPACE)) ELSE r

\* The copy loop of editorUpdateRow from character j (1-based) on.
RECURSIVE RenderLoop(_, _, _, _)
RenderLoop(chars, size, j, r) ==
    IF j > size THEN r
    ELSE IF chars[j] = TAB THEN RenderLoop(chars, size, j + 1, PadTab(Append(r, SPACE)))
    ELSE RenderLoop(chars, size, j + 1, Append(r, chars[j]))

editorUpdateRow(row) ==
    LET r == RenderLoop(row.chars, row.size, 1, <<>>)
    IN editorUpdateSyntax([row EXCEPT !.render = r, !.rsize = Len(r)])

RECURSIVE CxToRxLoop(_, _, _, _)
CxToRxLoop(row, cx, j, rx) ==
    IF j >= cx THEN rx
    ELSE IF row.chars[j + 1] = TAB
         THEN CxToRxLoop(row, cx, j + 1,
                         rx + ((KILO_TAB_STOP - 1) - (rx % KILO_TAB_STOP)) + 1)
         ELSE CxToRxLoop(row, cx, j + 1, rx + 1)

\* editorRowCxToRx for which a tab is always KILO_TAB_STOP columns wide.
RECURSIVE editorRowCxToRxWide(_, _)
editorRowCxToRxWide(row, cx) ==
    IF cx = 0 THEN 0
    ELSE editorRowCxToRxWide(row, cx - 1)
         + (IF row.chars[cx] = TAB THEN KILO_TAB_STOP ELSE 1)

editorRowCxToRx(row, cx) == CxToRxLoop(row, cx, 0, 0)

RECURSIVE RxToCxLoop(_, _, _, _)
RxToCxLoop(row, rx, cx, cur_rx) ==
    IF cx >= row.size THEN cx
    ELSE LET nxt == IF row.chars[cx + 1] = TAB
                    THEN cur_rx + ((KILO_TAB_STOP - 1) - (cur_rx % KILO_TAB_STOP)) + 1
                    ELSE cur_rx + 1
         IN IF nxt > rx THEN cx ELSE RxToCxLoop(row, rx, cx + 1, nxt)

\* editorRowRxToCx that stops at the column of rx, not past it.
editorRowRxToCxEarly(row, rx) == RxToCxLoop(row, rx - 1, 0, 0)

editorRowRxToCx(row, rx) == RxToCxLoop(row, rx, 0, 0)

(***************************************************************************)
(* Row operations.  e is the editorConfig E; rows are numbered from 0 as   *)
(* in the source, e.row[i + 1] is E.row[i].                                *)
(***************************************************************************)
editorInsertRow(e, at, s, len) ==
    IF at < 0 \/ at > e.numrows THEN e
    ELSE LET new == editorUpdateRow([size |-> len, chars |-> SubSeq(s, 1, len),
                                     rsize |-> 0, render |-> <<>>, hl |-> <<>>])
         IN [e EXCEPT !.row = SubSeq(e.row, 1, at) \o <<new>>
                                \o SubSeq(e.row, at + 1, e.numrows),
                      !.numrows = e.numrows + 1,
                      !.dirty = e.dirty + 1]

editorDelRow(e, at) ==
    IF at < 0 \/ at >= e.numrows THEN e
    ELSE [e EXCEPT !.row = SubSeq(e.row, 1, at) \o SubSeq(e.row, at + 2, e.numrows),
                   !.numrows = e.numrows - 1,
                   !.dirty = e.dirty + 1]

\* editorRowInsertChar(&E.row[r], at, c)
editorRowInsertChar(e, r, at0, c) ==
    LET row == e.row[r + 1]
        at == IF at0 < 0 \/ at0 > row.size THEN row.size ELSE at0
        new == editorUpdateRow([row EXCEPT
                   !.chars = SubSeq(row.chars, 1, at) \o <<c>>
                             \o SubSeq(row.chars, at + 1, row.size),
                   !.size = row.size + 1])
    IN [e EXCEPT !.row[r + 1] = new, !.dirty = e.dirty + 1]

\* editorRowAppendString(&E.row[r], s, len)
editorRowAppendString(e, r, s, len) ==
    LET row == e.row[r + 1]
        new == editorUpdateRow([row EXCEPT
                   !.chars = SubSeq(row.chars, 1, row.size) \o SubSeq(s, 1, len),
                   !.size = row.size + len])
    IN [e EXCEPT !.row[r + 1] = new, !.dirty = e.dirty + 1]

\* editorRowDelChar that removes the first character whatever at is.
editorRowDelCharFirst(e, r, at) ==
    LET row == e.row[r + 1]
    IN IF at < 0 \/ at >= row.size THEN e
       ELSE LET new == editorUpdateRow([row EXCEPT
                           !.chars = SubSeq(row.chars, 2, row.size),
                           !.size = row.size - 1])
            IN [e EXCEPT !.row[r + 1] = new, !.dirty = e.dirty + 1]

\* editorRowDelChar that does not count the change.
editorRowDelCharQuiet(e, r, at) ==
    LET row == e.row[r + 1]
    IN IF at < 0 \/ at >= row.size THEN e
       ELSE LET new == editorUpdateRow([row EXCEPT
                           !.chars = SubSeq(row.chars, 1, at)
                                     \o SubSeq(row.chars, at + 2, row.size),
                           !.size = row.size - 1])
            IN [e EXCEPT !.row[r + 1] = new]

\* editorRowDelChar(&E.row[r], at)
editorRowDelChar(e, r, at) ==
    LET row == e.row[r + 1]
    IN IF at < 0 \/ at >= row.size THEN e
       ELSE LET new == editorUpdateRow([row EXCEPT
                           !.chars = SubSeq(row.chars, 1, at)
                                     \o SubSeq(row.chars, at + 2, row.size),
                           !.size = row.size - 1])
            IN [e EXCEPT !.row[r + 1] = new, !.dirty = e.dirty + 1]

(***************************************************************************)
(* Editor operations.                                                      *)
(***************************************************************************)
editorInsertChar(e, c) ==
    LET e1 == IF e.cy = e.numrows THEN editorInsertRow(e, e.numrows, <<>>, 0) ELSE e
        e2 == editorRowInsertChar(e1, e1.cy, e1.cx, c)
    IN [e2 EXCEPT !.cx = e2.cx + 1]

\* editorInsertNewline that cuts the row without calling editorUpdateRow on it.
editorInsertNewlineStale(e) ==
    LET e1 == IF e.cx = 0 THEN editorInsertRow(e, e.cy, <<>>, 0)
              ELSE LET row == e.row[e.cy + 1]
                       e2 == editorInsertRow(e, e.cy + 1,
                                 SubSeq(row.chars, e.cx + 1, row.size), row.size - e.cx)
                       cut == [e2.row[e.cy + 1] EXCEPT
                                  !.size = e.cx,
                                  !.chars = SubSeq(e2.row[e.cy + 1].chars, 1, e.cx)]
                   IN [e2 EXCEPT !.row[e.cy + 1] = cut]
    IN [e1 EXCEPT !.cy = e.cy + 1, !.cx = 0]

\* editorInsertNewline that leaves the split row at its full length.
editorInsertNewlineNoCut(e) ==
    LET e1 == IF e.cx = 0 THEN editorInsertRow(e, e.cy, <<>>, 0)
              ELSE LET row == e.row[e.cy + 1]
                   IN editorInsertRow(e, e.cy + 1,
                          SubSeq(row.chars, e.cx + 1, row.size), row.size - e.cx)
    IN [e1 EXCEPT !.cy = e.cy + 1, !.cx = 0]

editorInsertNewline(e) ==
    LET e1 == IF e.cx = 0 THEN editorInsertRow(e, e.cy, <<>>, 0)
              ELSE LET row == e.row[e.cy + 1]
                       e2 == editorInsertRow(e, e.cy + 1,
                                 SubSeq(row.chars, e.cx + 1, row.size), row.size - e.cx)
                       cut == [e2.row[e.cy + 1] EXCEPT
                                  !.size = e.cx,
                                  !.chars = SubSeq(e2.row[e.cy + 1].chars, 1, e.cx)]
                   IN [e2 EXCEPT !.row[e.cy + 1] = editorUpdateRow(cut)]
    IN [e1 EXCEPT !.cy = e.cy + 1, !.cx = 0]

\* editorDelChar that sets the column after the append instead of before it.
editorDelCharLate(e) ==
    IF e.cy = e.numrows THEN e
    ELSE IF e.cx = 0 /\ e.cy = 0 THEN e
    ELSE IF e.cx > 0 THEN
        LET e1 == editorRowDelChar(e, e.cy, e.cx - 1)
        IN [e1 EXCEPT !.cx = e.cx - 1]
    ELSE
        LET row == e.row[e.cy + 1]
            e2 == editorRowAppendString(e, e.cy - 1, row.chars, row.size)
            e3 == editorDelRow(e2, e.cy)
        IN [e3 EXCEPT !.cy = e.cy - 1, !.cx = e2.row[e.cy].size]

editorDelChar(e) ==
    IF e.cy = e.numrows THEN e
    ELSE IF e.cx = 0 /\ e.cy = 0 THEN e
    ELSE IF e.cx > 0 THEN
        LET e1 == editorRowDelChar(e, e.cy, e.cx - 1)
        IN [e1 EXCEPT !.cx = e.cx - 1]
    ELSE
        LET row == e.row[e.cy + 1]
            e1 == [e EXCEPT !.cx = e.row[e.cy].size]
            e2 == editorRowAppendString(e1, e.cy - 1, row.chars, row.size)
            e3 == editorDelRow(e2, e.cy)
        IN [e3 EXCEPT !.cy = e.cy - 1]

(***************************************************************************)
(* Cursor movement and scrolling.                                          *)
(***************************************************************************)
\* editorMoveCursor without the snap to the end of the line.
editorMoveCursorNoSnap(e, key) ==
    LET hasrow == e.cy < e.numrows
        size == IF hasrow THEN e.row[e.cy + 1].size ELSE 0
    IN CASE key = ARROW_LEFT ->
              IF e.cx # 0 THEN [e EXCEPT !.cx = e.cx - 1]
              ELSE IF e.cy > 0
                   THEN [e EXCEPT !.cy = e.cy - 1, !.cx = e.row[e.cy].size]
                   ELSE e
         [] key = ARROW_RIGHT ->
              IF hasrow /\ e.cx < size THEN [e EXCEPT !.cx = e.cx + 1]
              ELSE IF hasrow /\ e.cx = size
                   THEN [e EXCEPT !.cy = e.cy + 1, !.cx = 0]
                   ELSE e
         [] key = ARROW_UP ->
              IF e.cy # 0 THEN [e EXCEPT !.cy = e.cy - 1] ELSE e
         [] key = ARROW_DOWN ->
              IF e.cy # e.numrows THEN [e EXCEPT !.cy = e.cy + 1] ELSE e
         [] OTHER -> e

editorMoveCursor(e, key) ==
    LET hasrow == e.cy < e.numrows
        size == IF hasrow THEN e.row[e.cy + 1].size ELSE 0
        e1 == CASE key = ARROW_LEFT ->
                     IF e.cx # 0 THEN [e EXCEPT !.cx = e.cx - 1]
                     ELSE IF e.cy > 0
                          THEN [e EXCEPT !.cy = e.cy - 1, !.cx = e.row[e.cy].size]
                          ELSE e
                [] key = ARROW_RIGHT ->
                     IF hasrow /\ e.cx < size THEN [e EXCEPT !.cx = e.cx + 1]
                     ELSE IF hasrow /\ e.cx = size
                          THEN [e EXCEPT !.cy = e.cy + 1, !.cx = 0]
                          ELSE e
                [] key = ARROW_UP ->
                     IF e.cy # 0 THEN [e EXCEPT !.cy = e.cy - 1] ELSE e
                [] key = ARROW_DOWN ->
                     IF e.cy # e.numrows THEN [e EXCEPT !.cy = e.cy + 1] ELSE e
                [] OTHER -> e
        row_len == IF e1.cy >= e1.numrows THEN 0 ELSE e1.row[e1.cy + 1].size
    IN IF e1.cx > row_len THEN [e1 EXCEPT !.cx = row_len] ELSE e1

\* while (times--) editorMoveCursor(key)
RECURSIVE MoveTimes(_, _, _)
MoveTimes(e, key, times) ==
    IF times = 0 THEN e ELSE MoveTimes(editorMoveCursor(e, key), key, times - 1)

\* The PAGE_UP / PAGE_DOWN case of editorProcessKeypress.
PageMove(e, c) ==
    LET e1 == IF c = PAGE_UP THEN [e EXCEPT !.cy = e.rowoff]
              ELSE LET cy == e.rowoff + e.screenrows - 1
                   IN [e EXCEPT !.cy = IF cy > e.numrows THEN e.numrows ELSE cy]
    IN MoveTimes(e1, IF c = PAGE_UP THEN ARROW_UP ELSE ARROW_DOWN, e.screenrows)

\* editorScroll without its scroll-down branch.
editorScrollNoDown(e) ==
    LET rx == IF e.cy < e.numrows THEN editorRowCxToRx(e.row[e.cy + 1], e.cx) ELSE 0
        ro1 == IF e.cy < e.rowoff THEN e.cy ELSE e.rowoff
        co1 == IF rx < e.coloff THEN rx ELSE e.coloff
        co2 == IF rx >= co1 + e.screencols THEN rx - e.screenrows + 1 ELSE co1
    IN [e EXCEPT !.rx = rx, !.rowoff = ro1, !.coloff = co2]

editorScroll(e) ==
    LET rx == IF e.cy < e.numrows THEN editorRowCxToRx(e.row[e.cy + 1], e.cx) ELSE 0
        ro1 == IF e.cy < e.rowoff THEN e.cy ELSE e.rowoff
        ro2 == IF e.cy >= ro1 + e.screenrows THEN e.cy - e.screenrows + 1 ELSE ro1
        co1 == IF rx < e.coloff THEN rx ELSE e.coloff
        co2 == IF rx >= co1 + e.screencols THEN rx - e.screenrows + 1 ELSE co1
    IN [e EXCEPT !.rx = rx, !.rowoff = ro2, !.coloff = co2]

(***************************************************************************)
(* Find.  f holds the function-local statics of editorFindCallback.        *)
(***************************************************************************)
\* strstr(hay, needle) - hay, or -1 for a null result.
StrStr(hay, needle) ==
    LET at == {i \in 0..(Len(hay) - Len(needle)) :
                  SubSeq(hay, i + 1, i + Len(needle)) = needle}
    IN IF at = {} THEN -1 ELSE CHOOSE i \in at : \A j \in at : i <= j

\* The search loop that re-anchors the viewport when it has found nothing.
RECURSIVE FindLoopAnchors(_, _, _, _, _)
FindLoopAnchors(e, f, query, i, current) ==
    IF i >= e.numrows THEN [E |-> [e EXCEPT !.rowoff = e.numrows], F |-> f]
    ELSE LET c1 == current + f.direction
             cur == IF c1 = -1 THEN e.numrows - 1
                    ELSE IF c1 = e.numrows THEN 0 ELSE c1
             row == e.row[cur + 1]
             match == StrStr(row.render, query)
         IN IF match # -1
            THEN [E |-> [e EXCEPT !.cy = cur,
                                  !.cx = editorRowRxToCx(row, match),
                                  !.rowoff = e.numrows,
                                  !.row[cur + 1].hl = [k \in 1..row.rsize |->
                                      IF k > match /\ k <= match + Len(query)
                                      THEN HL_MATCH ELSE row.hl[k]]],
                  F |-> [f EXCEPT !.last_match = cur,
                                  !.saved_hl_line = cur,
                                  !.saved_hl = row.hl]]
            ELSE FindLoopAnchors(e, f, query, i + 1, cur)

\* The search loop of editorFindCallback, from iteration i with the given current.
RECURSIVE FindLoop(_, _, _, _, _)
FindLoop(e, f, query, i, current) ==
    IF i >= e.numrows THEN [E |-> e, F |-> f]
    ELSE LET c1 == current + f.direction
             cur == IF c1 = -1 THEN e.numrows - 1
                    ELSE IF c1 = e.numrows THEN 0 ELSE c1
             row == e.row[cur + 1]
             match == StrStr(row.render, query)
         IN IF match # -1
            THEN [E |-> [e EXCEPT !.cy = cur,
                                  !.cx = editorRowRxToCx(row, match),
                                  !.rowoff = e.numrows,
                                  !.row[cur + 1].hl = [k \in 1..row.rsize |->
                                      IF k > match /\ k <= match + Len(query)
                                      THEN HL_MATCH ELSE row.hl[k]]],
                  F |-> [f EXCEPT !.last_match = cur,
                                  !.saved_hl_line = cur,
                                  !.saved_hl = row.hl]]
            ELSE FindLoop(e, f, query, i + 1, cur)

\* editorFindCallback that leaves on Enter or Escape before restoring the
\* saved highlight.
editorFindCallbackEarlyReturn(e, f, query, key) ==
    LET e0 == IF f.saved_hl # NULL
              THEN [e EXCEPT !.row[f.saved_hl_line + 1].hl =
                       [k \in 1..e.row[f.saved_hl_line + 1].rsize |-> f.saved_hl[k]]]
              ELSE e
        f0 == [f EXCEPT !.saved_hl = NULL]
    IN IF key = CR \/ key = ESC
       THEN [E |-> e, F |-> [f0 EXCEPT !.last_match = -1, !.direction = 1]]
       ELSE LET f1 == IF key = ARROW_RIGHT \/ key = ARROW_DOWN
                      THEN [f0 EXCEPT !.direction = 1]
                      ELSE IF key = ARROW_LEFT \/ key = ARROW_UP
                      THEN [f0 EXCEPT !.direction = -1]
                      ELSE [f0 EXCEPT !.last_match = -1, !.direction = 1]
                f2 == IF f1.last_match = -1 THEN [f1 EXCEPT !.direction = 1] ELSE f1
            IN FindLoop(e0, f2, query, 0, f2.last_match)

\* editorFindCallback for which every arrow key searches forward.
editorFindCallbackForward(e, f, query, key) ==
    LET e0 == IF f.saved_hl # NULL
              THEN [e EXCEPT !.row[f.saved_hl_line + 1].hl =
                       [k \in 1..e.row[f.saved_hl_line + 1].rsize |-> f.saved_hl[k]]]
              ELSE e
        f0 == [f EXCEPT !.saved_hl = NULL]
    IN IF key = CR \/ key = ESC
       THEN [E |-> e0, F |-> [f0 EXCEPT !.last_match = -1, !.direction = 1]]
       ELSE LET f1 == IF key \in {ARROW_RIGHT, ARROW_DOWN, ARROW_LEFT, ARROW_UP}
                      THEN [f0 EXCEPT !.direction = 1]
                      ELSE [f0 EXCEPT !.last_match = -1, !.direction = 1]
            IN FindLoop(e0, f1, query, 0, f1.last_match)

\* editorFindCallback with the arrow keys exchanged: Right and Down search
\* backward, Left and Up forward.
editorFindCallbackSwapped(e, f, query, key) ==
    LET e0 == IF f.saved_hl # NULL
              THEN [e EXCEPT !.row[f.saved_hl_line + 1].hl =
                       [k \in 1..e.row[f.saved_hl_line + 1].rsize |-> f.saved_hl[k]]]
              ELSE e
        f0 == [f EXCEPT !.saved_hl = NULL]
    IN IF key = CR \/ key = ESC
       THEN [E |-> e0, F |-> [f0 EXCEPT !.last_match = -1, !.direction = 1]]
       ELSE LET f1 == IF key = ARROW_RIGHT \/ key = ARROW_DOWN
                      THEN [f0 EXCEPT !.direction = -1]
                      ELSE IF key = ARROW_LEFT \/ key = ARROW_UP
                      THEN [f0 EXCEPT !.direction = 1]
                      ELSE [f0 EXCEPT !.last_match = -1, !.direction = 1]
                f2 == IF f1.last_match = -1 THEN [f1 EXCEPT !.direction = 1] ELSE f1
            IN FindLoop(e0, f2, query, 0, f2.last_match)

editorFindCallback(e, f, query, key) ==
    LET e0 == IF f.saved_hl # NULL
              THEN [e EXCEPT !.row[f.saved_hl_line + 1].hl =
                       [k \in 1..e.row[f.saved_hl_line + 1].rsize |-> f.saved_hl[k]]]
              ELSE e
        f0 == [f EXCEPT !.saved_hl = NULL]
    IN IF key = CR \/ key = ESC
       THEN [E |-> e0, F |-> [f0 EXCEPT !.last_match = -1, !.direction = 1]]
       ELSE LET f1 == IF key = ARROW_RIGHT \/ key = ARROW_DOWN
                      THEN [f0 EXCEPT !.direction = 1]
                      ELSE IF key = ARROW_LEFT \/ key = ARROW_UP
                      THEN [f0 EXCEPT !.direction = -1]
                      ELSE [f0 EXCEPT !.last_match = -1, !.direction = 1]
                f2 == IF f1.last_match = -1 THEN [f1 EXCEPT !.direction = 1] ELSE f1
            IN FindLoop(e0, f2, query, 0, f2.last_match)

(***************************************************************************)
(* File I/O.                                                               *)
(***************************************************************************)
\* editorRowsToString from row j (0-based) on: each row's chars, then '\n'.
RECURSIVE RowsToStringLoop(_, _)
RowsToStringLoop(e, j) ==
    IF j >= e.numrows THEN <<>>
    ELSE SubSeq(e.row[j + 1].chars, 1, e.row[j + 1].size) \o <<10>>
         \o RowsToStringLoop(e, j + 1)

\* editorRowsToString without the newline after the last row.
editorRowsToStringNoFinal(e) ==
    LET s == RowsToStringLoop(e, 0)
    IN IF s = <<>> THEN s ELSE SubSeq(s, 1, Len(s) - 1)

editorRowsToString(e) == RowsToStringLoop(e, 0)

\* The inner while loop of editorOpen: drop trailing '\n' and '\r'.
RECURSIVE StripLine(_, _)
StripLine(line, linelen) ==
    IF linelen > 0 /\ (line[linelen] = 10 \/ line[linelen] = 13)
    THEN StripLine(line, linelen - 1) ELSE linelen

\* The getline loop of editorOpen over the lines getline returns.
RECURSIVE OpenLoop(_, _, _)
OpenLoop(e, lines, k) ==
    IF k > Len(lines) THEN e
    ELSE OpenLoop(editorInsertRow(e, e.numrows, lines[k],
                                  StripLine(lines[k], Len(lines[k]))), lines, k + 1)

editorOpen(e, filename, lines) ==
    [OpenLoop([e EXCEPT !.filename = filename], lines, 1) EXCEPT !.dirty = 0]

(***************************************************************************)
(* The status bar.                                                         *)
(***************************************************************************)
\* printf's %d for a number that is not negative.
RECURSIVE FormatInt(_)
FormatInt(n) ==
    IF n < 10 THEN <<48 + n>> ELSE FormatInt(n \div 10) \o <<48 + (n % 10)>>

\* printf's %.20s.
FormatName(name) == SubSeq(name, 1, Min(Len(name), 20))

\* "[No Name]", " - ", " lines ", "(modified)".
StrNoName == <<91, 78, 111, 32, 78, 97, 109, 101, 93>>
StrDash == <<32, 45, 32>>
StrLines == <<32, 108, 105, 110, 101, 115, 32>>
StrModified == <<40, 109, 111, 100, 105, 102, 105, 101, 100, 41>>

\* The left text: "%.20s - %d lines %s".
StatusText(e) ==
    FormatName(IF e.filename # NULL THEN e.filename ELSE StrNoName)
    \o StrDash \o FormatInt(e.numrows) \o StrLines
    \o (IF e.dirty # 0 THEN StrModified ELSE <<>>)

\* The right text: "%d/%d".
RStatusText(e) == FormatInt(e.cy + 1) \o <<47>> \o FormatInt(e.numrows)

\* The while loop of editorDrawStatusBar: what it appends from column len on.
RECURSIVE StatusPad(_, _, _)
StatusPad(e, len, rstatus) ==
    IF len < e.screencols
    THEN IF e.screencols - len = Len(rstatus)
         THEN rstatus
         ELSE <<SPACE>> \o StatusPad(e, len + 1, rstatus)
    ELSE <<>>

\* editorDrawStatusBar that appends the whole left text, whatever the width.
editorDrawStatusBarNoCut(e) ==
    LET status == StatusText(e)
    IN <<ESC, 91, 55, 109>> \o status \o StatusPad(e, Len(status), RStatusText(e))
       \o <<ESC, 91, 109>> \o <<13, 10>>

\* editorDrawStatusBar: the bytes it appends to the frame.
editorDrawStatusBar(e) ==
    LET status == StatusText(e)
        len == IF Len(status) > e.screencols THEN e.screencols ELSE Len(status)
    IN <<ESC, 91, 55, 109>> \o SubSeq(status, 1, len) \o StatusPad(e, len, RStatusText(e))
       \o <<ESC, 91, 109>> \o <<13, 10>>

(***************************************************************************)
(* State.                                                                  *)
(***************************************************************************)
VARIABLES
    E,          \* struct editorConfig E (without statusmsg and orig_termios)
    statusmsg,  \* E.statusmsg as the last step set it, until a frame has drawn it
    F,          \* the statics of editorFindCallback
    P,          \* the running editorPrompt and the locals of its caller
    quit_times, \* the static of editorProcessKeypress
    pc,         \* "start", "refresh", "key" or "exited"
    termios,    \* the terminal attributes in force: "raw" or "orig"
    out,        \* what an exit path did to the terminal, in order
    exitcode,   \* the status passed to exit(), -1 while running
    ev,         \* the last step taken, and the Ctrl-Q presses counted before it
    qpresses,   \* consecutive Ctrl-Q presses processed so far
    lim,        \* the document bound of the running specification
    call,       \* one operation applied on its own: its name, inputs and result
    saved,      \* the rows as last loaded or written out by a save that succeeded
                \* (NULL, not kept, in the specification without the save key)
    stream,     \* bytes waiting on the terminal (the decoder's own specification)
    seq,        \* the bytes the last editorReadKey call consumed (c and seq[])
    key         \* the key the last editorReadKey call returned

vars == <<E, statusmsg, F, P, quit_times, pc, termios, out, exitcode, ev, qpresses,
          lim, call, saved, stream, seq, key>>

\* No operation applied on its own.
NoCall == [op |-> "", arg |-> <<>>, res |-> <<>>]

Msg(tag, n, s) == [tag |-> tag, n |-> n, s |-> s]

Ev(tag) == [tag |-> tag, q |-> qpresses]

\* No message pending: editorDrawMessageBar draws a message only while it is
\* younger than 5 seconds, the model keeps it for the one frame after it is set.
NoMsg == Msg("", 0, <<>>)

\* The content of the document: the characters of each row.
Rows(e) == [i \in 1..e.numrows |-> SubSeq(e.row[i].chars, 1, e.row[i].size)]

\* The static struct E before initEditor.
EZero ==
    [cx |-> 0, cy |-> 0, rx |-> 0, rowoff |-> 0, coloff |-> 0,
     screenrows |-> 0, screencols |-> 0,
     numrows |-> 0, row |-> <<>>, dirty |-> 0, filename |-> NULL]

\* initEditor, with the window size getWindowSize reports.
initEditor(ws_row, ws_col) ==
    [cx |-> 0, cy |-> 0, rx |-> 0, rowoff |-> 0, coloff |-> 0,
     screenrows |-> ws_row - 2, screencols |-> ws_col,
     numrows |-> 0, row |-> <<>>, dirty |-> 0, filename |-> NULL]

FInit == [last_match |-> -1, direction |-> 1, saved_hl_line |-> 0, saved_hl |-> NULL]

PIdle == [mode |-> "main", buf |-> <<>>, saved_cx |-> 0, saved_cy |-> 0,
          saved_coloff |-> 0, saved_rowoff |-> 0, hl0 |-> <<>>]

\* main() up to the help message: initEditor, editorOpen when a file is named.
Startup(ws_row, ws_col, named, lines) ==
    LET e0 == initEditor(ws_row, ws_col)
    IN IF named THEN editorOpen(e0, <<49>>, lines) ELSE e0

\* The files opened at start, as the lines getline returns (terminators
\* included): every file within the document bound, and two with other bytes.
Texts == UNION { [1..n -> TextChars] : n \in 0..MaxLen }
FileLines == { Append(x, 10) : x \in Texts }
Files == UNION { [1..n -> FileLines] : n \in 0..MaxRows }
         \cup { << <<97, 49, 13, 10>>, <<10>> >>, << <<TAB, 97>> >> }

\* The files of the session specification.
SessionFiles == { <<>>, << <<49, 10>> >> }

\* The document bound of the session specification.
SessionLim == [rows |-> 1, len |-> 1]

\* The window sizes: screenrows = ws_row - 2 and screencols = ws_col.
WinRows == 3..(MaxScreenRows + 2)
WinCols == 1..MaxScreenCols

\* The model's bounds on the document and on the dirty counter.
InBounds(e) ==
    /\ e.numrows <= lim.rows
    /\ e.dirty <= MaxDirty
    /\ \A i \in 1..e.numrows : e.row[i].size <= lim.len

\* The byte sequences typed: one key each.
KeyStreams ==
    { <<CR>>, <<CTRL_H>>, <<CTRL_L>>, <<BACKSPACE>>, <<ESC>>,
      <<ESC, 91, 65>>, <<ESC, 91, 66>>, <<ESC, 91, 67>>, <<ESC, 91, 68>>,
      <<ESC, 91, 72>>, <<ESC, 79, 70>>,
      <<ESC, 91, 51, 126>>, <<ESC, 91, 53, 126>>, <<ESC, 91, 54, 126>> }
MainStreams == KeyStreams \cup { <<CTRL_Q>>, <<CTRL_S>>, <<CTRL_F>> }
                          \cup { <<c>> : c \in TextChars }
PromptStreams ==
    KeyStreams \cup { <<c>> : c \in IF P.mode = "Search" THEN QueryChars ELSE NameChars }

\* What is the same in every initial state.
InitCommon ==
    /\ F = FInit
    /\ P = PIdle
    /\ quit_times = KILO_QUIT_TIMES
    /\ termios = "raw"
    /\ out = <<>>
    /\ exitcode = -1
    /\ ev = [tag |-> "start", q |-> 0]
    /\ qpresses = 0
    /\ seq = <<>>
    /\ key = 0

\* The editor at its first frame, having opened any file within the bounds.
Init ==
    /\ \E ws_row \in WinRows, ws_col \in WinCols, lines \in Files :
          E = Startup(ws_row, ws_col, lines # <<>>, lines)
    /\ statusmsg = Msg("HELP", 0, <<>>)
    /\ pc = "refresh"
    /\ lim = [rows |-> MaxRows, len |-> MaxLen]
    /\ call = NoCall
    /\ saved = NULL
    /\ stream = <<>>
    /\ InitCommon

(***************************************************************************)
(* The main loop: editorRefreshScreen, then editorProcessKeypress.         *)
(***************************************************************************)
\* editorRefreshScreen with a terminal that takes the frame (inside a prompt the
\* loop of editorPrompt sets the prompt message first); the frame draws the
\* pending message.
Refresh ==
    /\ pc = "refresh"
    /\ E' = editorScroll(E)
    /\ statusmsg' = NoMsg
    /\ P' = IF P.mode = "main" THEN PIdle ELSE P
    /\ pc' = "key"
    /\ ev' = Ev("frame")
    /\ UNCHANGED <<F, quit_times, termios, out, exitcode, qpresses, lim, call, saved, stream, seq, key>>

\* The end of editorProcessKeypress without the reset of quit_times.
BreakNoReset(e, tag, m) ==
    /\ E' = e
    /\ statusmsg' = m
    /\ quit_times' = quit_times
    /\ pc' = "refresh"
    /\ ev' = Ev(tag)
    /\ qpresses' = 0
    /\ UNCHANGED <<termios, out, exitcode, lim, call, stream, seq, key>>

\* The end of editorProcessKeypress for a case that breaks out of the switch.
Break(e, tag, m) ==
    /\ E' = e
    /\ statusmsg' = m
    /\ quit_times' = KILO_QUIT_TIMES
    /\ pc' = "refresh"
    /\ ev' = Ev(tag)
    /\ qpresses' = 0
    /\ UNCHANGED <<termios, out, exitcode, lim, call, stream, seq, key>>

InMain == pc = "key" /\ P.mode = "main"

KeyEnter ==
    /\ InMain
    /\ \E s \in MainStreams : editorReadKey(s).key = CR
    /\ LET e1 == editorInsertNewline(E)
       IN InBounds(e1) /\ Break(e1, "enter", statusmsg)
    /\ UNCHANGED <<F, P, saved>>

KeyHomeEnd ==
    /\ InMain
    /\ \E s \in MainStreams :
          LET c == editorReadKey(s).key
          IN /\ c \in {HOME_KEY, END_KEY}
             /\ Break(IF c = HOME_KEY THEN [E EXCEPT !.cx = 0]
                      ELSE IF E.cy < E.numrows
                           THEN [E EXCEPT !.cx = E.row[E.cy + 1].size]
                           ELSE E, "homeend", statusmsg)
    /\ UNCHANGED <<F, P, saved>>

KeyDelete ==
    /\ InMain
    /\ \E s \in MainStreams :
          LET c == editorReadKey(s).key
              e1 == editorDelChar(IF c = DEL_KEY THEN editorMoveCursor(E, ARROW_RIGHT)
                                  ELSE E)
          IN /\ c \in {BACKSPACE, CTRL_H, DEL_KEY}
             /\ InBounds(e1)
             /\ Break(e1, "delete", statusmsg)
    /\ UNCHANGED <<F, P, saved>>

KeyPage ==
    /\ InMain
    /\ \E s \in MainStreams :
          LET c == editorReadKey(s).key
          IN /\ c \in {PAGE_UP, PAGE_DOWN}
             /\ Break(PageMove(E, c), "page", statusmsg)
    /\ UNCHANGED <<F, P, saved>>

KeyArrow ==
    /\ InMain
    /\ \E s \in MainStreams :
          LET c == editorReadKey(s).key
          IN /\ c \in {ARROW_UP, ARROW_DOWN, ARROW_LEFT, ARROW_RIGHT}
             /\ Break(editorMoveCursor(E, c), "arrow", statusmsg)
    /\ UNCHANGED <<F, P, saved>>

KeyNoop ==
    /\ InMain
    /\ \E s \in MainStreams : editorReadKey(s).key \in {CTRL_L, ESC}
    /\ Break(E, "noop", statusmsg)
    /\ UNCHANGED <<F, P, saved>>

KeyInsert ==
    /\ InMain
    /\ \E s \in MainStreams :
          LET c == editorReadKey(s).key
              e1 == editorInsertChar(E, c)
          IN /\ c \in TextChars
             /\ InBounds(e1)
             /\ Break(e1, "insert", statusmsg)
    /\ UNCHANGED <<F, P, saved>>

\* Ctrl-F: editorFind saves the cursor and the offsets and opens the prompt.
\* hl0 remembers every row's highlight at that moment.
KeyFind ==
    /\ InMain
    /\ \E s \in MainStreams : editorReadKey(s).key = CTRL_F
    /\ P' = [PIdle EXCEPT !.mode = "Search", !.saved_cx = E.cx, !.saved_cy = E.cy,
                          !.saved_coloff = E.coloff, !.saved_rowoff = E.rowoff,
                          !.hl0 = [i \in 1..E.numrows |-> E.row[i].hl]]
    /\ pc' = "refresh"
    /\ ev' = Ev("prompt")
    /\ qpresses' = 0
    /\ UNCHANGED <<E, statusmsg, F, quit_times, termios, out, exitcode, lim, call, saved, stream, seq, key>>

(***************************************************************************)
(* editorPrompt: one key of the running prompt.                            *)
(***************************************************************************)
InPrompt == pc = "key" /\ P.mode # "main"

\* callback(buf, c): editorFindCallback for the search prompt, none for "Save as".
Callback(e, f, buf, c) ==
    IF P.mode = "Search" THEN editorFindCallback(e, f, buf, c) ELSE [E |-> e, F |-> f]

\* The buffer after a key that keeps the prompt open.
PromptBuf(buf, c) ==
    IF c \in {DEL_KEY, CTRL_H, BACKSPACE}
    THEN IF Len(buf) # 0 THEN SubSeq(buf, 1, Len(buf) - 1) ELSE buf
    ELSE IF c = CR THEN buf
    ELSE IF ~iscntrl(c) /\ c < 128 THEN Append(buf, c)
    ELSE buf

PromptKey ==
    /\ InPrompt
    /\ \E s \in PromptStreams :
          LET c == editorReadKey(s).key
              buf == PromptBuf(P.buf, c)
              r == Callback(E, F, buf, c)
          IN /\ c # ESC
             /\ ~(c = CR /\ Len(P.buf) # 0)
             /\ Len(buf) <= MaxQuery
             /\ E' = r.E
             /\ F' = r.F
             /\ P' = [P EXCEPT !.buf = buf]
    /\ pc' = "refresh"
    /\ ev' = Ev("prompt")
    /\ UNCHANGED <<statusmsg, quit_times, termios, out, exitcode, qpresses, lim, call, saved,
                   stream, seq, key>>

\* The open/ftruncate/write part of editorSave, succeeding or failing: the
\* editor state and the message it leaves.
\* The rows a save that wrote everything has put into the file; a save that
\* failed leaves the last good copy as the reference.
Written(e, ok) == IF ok THEN Rows(e) ELSE saved

SaveWriteForgets(e, ok) == [e EXCEPT !.dirty = 0]
SaveWrite(e, ok) == IF ok THEN [e EXCEPT !.dirty = 0] ELSE e
SaveMsg(e, ok) ==
    IF ok THEN Msg("bytes written to disk", Len(editorRowsToString(e)), <<>>)
    ELSE Msg("Can't save! I/O error", 0, <<>>)

\* Escape: the prompt returns NULL.  editorFind frees the null query and restores
\* nothing; editorSave reports the abort.
PromptEsc ==
    /\ InPrompt
    /\ \E s \in PromptStreams : editorReadKey(s).key = ESC
    /\ LET r == Callback(E, F, P.buf, ESC)
       IN /\ F' = r.F
          /\ IF P.mode = "Search"
             THEN Break(r.E, "find_esc", Msg("", 0, <<>>))
             ELSE Break(r.E, "save_abort", Msg("Save aborted", 0, <<>>))
    /\ P' = [P EXCEPT !.mode = "main"]
    /\ UNCHANGED saved

\* Enter on a non-empty buffer: the prompt returns the buffer.  editorFind then
\* assigns the saved cursor and offsets; editorSave takes it as the file name.
PromptEnter ==
    /\ InPrompt
    /\ Len(P.buf) # 0
    /\ \E s \in PromptStreams : editorReadKey(s).key = CR
    /\ LET r == Callback(E, F, P.buf, CR)
       IN /\ F' = r.F
          /\ IF P.mode = "Search"
             THEN /\ Break([r.E EXCEPT !.cx = P.saved_cx, !.cy = P.saved_cy,
                                       !.coloff = P.saved_coloff,
                                       !.rowoff = P.saved_rowoff],
                           "find_enter", Msg("", 0, <<>>))
                  /\ UNCHANGED saved
             ELSE \E ok \in BOOLEAN :
                      LET e1 == [r.E EXCEPT !.filename = P.buf]
                      IN /\ Break(SaveWrite(e1, ok), "save", SaveMsg(e1, ok))
                         /\ saved' = Written(e1, ok)
    /\ P' = [P EXCEPT !.mode = "main"]

(***************************************************************************)
(* Save and quit.                                                          *)
(***************************************************************************)
KeySave ==
    /\ InMain
    /\ \E s \in MainStreams : editorReadKey(s).key = CTRL_S
    /\ IF E.filename = NULL
       THEN /\ P' = [PIdle EXCEPT !.mode = "Save as"]
            /\ pc' = "refresh"
            /\ ev' = Ev("prompt")
            /\ qpresses' = 0
            /\ UNCHANGED <<E, statusmsg, quit_times, termios, out, exitcode, lim, call, saved,
                           stream, seq, key>>
       ELSE /\ \E ok \in BOOLEAN :
                  /\ Break(SaveWrite(E, ok), "save", SaveMsg(E, ok))
                  /\ saved' = Written(E, ok)
            /\ UNCHANGED P
    /\ UNCHANGED F

\* die(s) after the terminal output in log; w is the write that fails (0: none).
\* A failed WRITE_WITH_CHECK reports with perror("write") and exits likewise.
die(log, w) ==
    IF w = 1 THEN log \o <<"perror">>
    ELSE IF w = 2 THEN log \o <<"clear", "perror">>
    ELSE log \o <<"clear", "home", "perror">>

\* exit(code) after the terminal output in log: the atexit handler
\* disableRawMode runs last.  When its tcsetattr fails it calls die, whose exit
\* inside the handler is undefined: the status is either one.
Exit(code, log) ==
    /\ pc' = "exited"
    /\ \E tc_ok \in BOOLEAN, w \in 0..2 :
          IF tc_ok
          THEN /\ termios' = "orig"
               /\ out' = log \o <<"restore">>
               /\ exitcode' = code
          ELSE /\ termios' = termios
               /\ out' = die(log \o <<"restore failed">>, w)
               /\ exitcode' \in {code, 1}

\* The test of the Ctrl-Q case, one off.
QuitConfirmedOneOff(e, qt) == ~(e.dirty # 0 /\ qt > 1)

\* The test of the Ctrl-Q case: quit for good, or warn and count down.
QuitConfirmed(e, qt) == ~(e.dirty # 0 /\ qt > 0)

KeyQuit ==
    /\ InMain
    /\ \E s \in MainStreams : editorReadKey(s).key = CTRL_Q
    /\ qpresses' = qpresses + 1
    /\ IF ~QuitConfirmed(E, quit_times)
       THEN /\ statusmsg' = Msg("WARNING", quit_times, <<>>)
            /\ quit_times' = quit_times - 1
            /\ pc' = "refresh"
            /\ ev' = Ev("warn")
            /\ UNCHANGED <<termios, out, exitcode>>
       ELSE /\ \E w \in 0..2 :
                  IF w = 0 THEN Exit(0, <<"clear", "home">>)
                  ELSE IF w = 1 THEN Exit(1, <<"perror">>)
                  ELSE Exit(1, <<"clear", "perror">>)
            /\ ev' = Ev("quit")
            /\ UNCHANGED <<statusmsg, quit_times>>
    /\ UNCHANGED <<E, F, P, lim, call, saved, stream, seq, key>>

(***************************************************************************)
(* The terminal session: start-up and the fatal paths.                     *)
(***************************************************************************)
\* main() from initEditor to the help message; raw mode is already entered.
Main ==
    /\ pc = "start"
    /\ \E ws_row \in WinRows, ws_col \in WinCols, named \in BOOLEAN,
          lines \in SessionFiles :
          /\ named \/ lines = <<>>
          /\ E' = Startup(ws_row, ws_col, named, lines)
    /\ saved' = Rows(E')
    /\ statusmsg' = Msg("HELP", 0, <<>>)
    /\ pc' = "refresh"
    /\ ev' = Ev("main")
    /\ UNCHANGED <<F, P, quit_times, termios, out, exitcode, qpresses, lim, call,
                   stream, seq, key>>

\* getWindowSize fails, or fopen fails: die.
MainDie ==
    /\ pc = "start"
    /\ \E w \in 0..2 : Exit(1, die(<<>>, w))
    /\ ev' = Ev("die")
    /\ UNCHANGED <<E, statusmsg, F, P, quit_times, qpresses, lim, call, saved, stream, seq, key>>

\* editorRefreshScreen whose write of the frame fails.
RefreshFail ==
    /\ pc = "refresh"
    /\ E' = editorScroll(E)
    /\ Exit(1, <<"perror">>)
    /\ ev' = Ev("write failed")
    /\ UNCHANGED <<statusmsg, F, P, quit_times, qpresses, lim, call, saved, stream, seq, key>>

\* editorReadKey whose read fails with an error other than EAGAIN: die("read").
ReadFail ==
    /\ pc = "key"
    /\ \E w \in 0..2 : Exit(1, die(<<>>, w))
    /\ ev' = Ev("die")
    /\ UNCHANGED <<E, statusmsg, F, P, quit_times, qpresses, lim, call, saved, stream, seq, key>>

\* Before main() has initialised the editor, raw mode entered.
InitSession ==
    /\ E = EZero
    /\ statusmsg = NoMsg
    /\ pc = "start"
    /\ lim = SessionLim
    /\ call = NoCall
    /\ saved = Rows(E)
    /\ stream = <<>>
    /\ InitCommon

\* The document and the viewport: every key but save and quit, which touch
\* neither the rows, the cursor nor the offsets.
Next ==
    \/ Refresh
    \/ KeyEnter
    \/ KeyHomeEnd
    \/ KeyFind
    \/ KeyDelete
    \/ KeyPage
    \/ KeyArrow
    \/ KeyNoop
    \/ KeyInsert
    \/ PromptKey
    \/ PromptEsc
    \/ PromptEnter

Spec == Init /\ [][Next]_vars

(***************************************************************************)
(* The same keys on a terminal that is taller than it is wide: TallRows    *)
(* text rows and one column.                                               *)
(***************************************************************************)
\* The files opened: an empty one, one line of two digits, two lines.
TallFiles == { <<>>, << <<49, 49, 10>> >>, << <<49, 10>>, <<TAB, 10>> >> }

InitTall ==
    /\ \E lines \in TallFiles : E = Startup(TallRows + 2, 1, TRUE, lines)
    /\ statusmsg = Msg("HELP", 0, <<>>)
    /\ pc = "refresh"
    /\ lim = [rows |-> MaxRows, len |-> MaxLen]
    /\ call = NoCall
    /\ saved = NULL
    /\ stream = <<>>
    /\ InitCommon

SpecTall == InitTall /\ [][Next]_vars

(***************************************************************************)
(* The key decoder on its own: successive editorReadKey calls on a stream. *)
(***************************************************************************)
\* What the terminal may deliver: the bytes editorReadKey tests for, one digit
\* and one letter it does not, and the read that times out.
DecoderBytes ==
    {ESC, 91, 79, 126, 97, TIMEOUT, 65, 66, 67, 68, 72, 70,
     49, 50, 51, 52, 53, 54, 55, 56}

InitKey ==
    /\ E = EZero
    /\ statusmsg = NoMsg
    /\ pc = "read"
    /\ lim = SessionLim
    /\ call = NoCall
    /\ saved = Rows(E)
    /\ \E n \in 1..MaxStream : stream \in [1..n -> DecoderBytes]
    /\ InitCommon

\* One call of editorReadKey: seq is what its reads took off the stream.
ReadKey ==
    /\ pc = "read"
    /\ stream # <<>>
    /\ LET s == WaitByte(stream)
       IN IF s = <<>>
          THEN /\ stream' = <<>>
               /\ ev' = Ev("waiting")
               /\ UNCHANGED <<seq, key>>
          ELSE LET r == editorReadKey(s)
               IN /\ key' = r.key
                  /\ seq' = SubSeq(s, 1, r.used)
                  /\ stream' = SubSeq(s, r.used + 1, Len(s))
                  /\ ev' = Ev("read")
    /\ UNCHANGED <<E, statusmsg, F, P, quit_times, pc, termios, out, exitcode,
                   qpresses, lim, call, saved>>

SpecKey == InitKey /\ [][ReadKey]_vars

(***************************************************************************)
(* The editing operations on their own: one call on a document loaded from *)
(* a file, with the cursor anywhere in it.                                 *)
(***************************************************************************)
\* The bytes of the files loaded: a tab, a digit and a carriage return.
EditChars == {TAB, 49, CR}

EditTexts == UNION { [1..n -> EditChars] : n \in 0..EditLen }
EditLines == { Append(x, 10) : x \in EditTexts }

\* What the operations on their own leave alone.
NoSession ==
    UNCHANGED <<E, statusmsg, F, P, quit_times, pc, termios, out, exitcode, ev,
                qpresses, lim, saved, stream, seq, key>>

\* What is the same in the initial states of the operations on their own.
InitCall ==
    /\ E = EZero
    /\ statusmsg = NoMsg
    /\ pc = "call"
    /\ lim = SessionLim
    /\ saved = Rows(E)
    /\ stream = <<>>
    /\ InitCommon

InitEdit ==
    /\ \E n \in 0..EditRows : \E lines \in [1..n -> EditLines] :
          LET e0 == editorOpen(initEditor(3, 1), <<49>>, lines)
          IN \E cy \in 0..e0.numrows :
                \E cx \in 0..(IF cy < e0.numrows THEN e0.row[cy + 1].size ELSE 0) :
                   call = [op |-> "",
                           arg |-> [lines |-> lines, e |-> [e0 EXCEPT !.cx = cx, !.cy = cy]],
                           res |-> <<>>]
    /\ InitCall

Idle == pc = "call" /\ call.op = ""

CallDelChar ==
    /\ Idle
    /\ call' = [call EXCEPT !.op = "editorDelChar", !.res = editorDelChar(call.arg.e)]
    /\ NoSession

CallInsertNewline ==
    /\ Idle
    /\ call' = [call EXCEPT !.op = "editorInsertNewline",
                            !.res = editorInsertNewline(call.arg.e)]
    /\ NoSession

\* editorRowInsertChar(row, at, c), then editorRowDelChar(row, at), on the row
\* and at the column of the cursor.
CallInsertDelete ==
    /\ Idle
    /\ call.arg.e.cy < call.arg.e.numrows
    /\ \E c \in EditChars :
          LET e == call.arg.e
              e1 == editorRowInsertChar(e, e.cy, e.cx, c)
              e2 == editorRowDelChar(e1, e.cy, e.cx)
          IN call' = [call EXCEPT !.op = "insert, delete",
                                  !.res = [c |-> c, mid |-> e1, e |-> e2]]
    /\ NoSession

\* The buffer editorSave writes for the document as loaded.
CallRowsToString ==
    /\ Idle
    /\ call' = [call EXCEPT !.op = "editorRowsToString",
                            !.res = editorRowsToString(call.arg.e)]
    /\ NoSession

\* The DEL_KEY case of editorProcessKeypress: one step right, then editorDelChar.
CallDelKey ==
    /\ Idle
    /\ call' = [call EXCEPT !.op = "DEL_KEY",
                            !.res = editorDelChar(editorMoveCursor(call.arg.e, ARROW_RIGHT))]
    /\ NoSession

NextEdit ==
    \/ CallDelChar
    \/ CallInsertNewline
    \/ CallInsertDelete
    \/ CallRowsToString
    \/ CallDelKey

SpecEdit == InitEdit /\ [][NextEdit]_vars

(***************************************************************************)
(* The column conversions on their own: one row, one cursor column.        *)
(***************************************************************************)
\* A row as editorInsertRow builds it from its characters.
NewRow(chars) == editorInsertRow(initEditor(3, 1), 0, chars, Len(chars)).row[1]

InitRx ==
    /\ \E n \in 0..RxLen : \E chars \in [1..n -> TextChars] : \E cx \in 0..n :
          call = [op |-> "", arg |-> [row |-> NewRow(chars), cx |-> cx], res |-> <<>>]
    /\ InitCall

CallCxToRx ==
    /\ Idle
    /\ call' = [call EXCEPT !.op = "editorRowCxToRx",
                            !.res = editorRowCxToRx(call.arg.row, call.arg.cx)]
    /\ NoSession

\* editorRowRxToCx(row, editorRowCxToRx(row, cx))
CallRxToCx ==
    /\ Idle
    /\ LET rx == editorRowCxToRx(call.arg.row, call.arg.cx)
       IN call' = [call EXCEPT !.op = "editorRowRxToCx",
                               !.res = [rx |-> rx,
                                        cx |-> editorRowRxToCx(call.arg.row, rx)]]
    /\ NoSession

NextRx ==
    \/ CallCxToRx
    \/ CallRxToCx

SpecRx == InitRx /\ [][NextRx]_vars

(***************************************************************************)
(* The search prompt on its own: the keys that keep it open, on a document *)
(* of digits and spaces.  call holds the last callback: the editor as the   *)
(* frame before the key left it, the statics, the query and the key, and    *)
(* what the callback returned.                                              *)
(***************************************************************************)
FindChars == {49, SPACE}
FindTexts == UNION { [1..n -> FindChars] : n \in 0..FindLen }
FindLines == { Append(x, 10) : x \in FindTexts }

InitFind ==
    /\ \E n \in 0..FindRows : \E lines \in [1..n -> FindLines] :
          \E cy \in 0..n :
             E = [Startup(MaxScreenRows + 2, 1, TRUE, lines) EXCEPT !.cy = cy]
    /\ statusmsg = NoMsg
    /\ pc = "find"
    /\ lim = SessionLim
    /\ call = NoCall
    /\ saved = Rows(E)
    /\ stream = <<>>
    /\ F = FInit
    /\ P = [PIdle EXCEPT !.mode = "Search"]
    /\ quit_times = KILO_QUIT_TIMES
    /\ termios = "raw"
    /\ out = <<>>
    /\ exitcode = -1
    /\ ev = [tag |-> "prompt", q |-> 0]
    /\ qpresses = 0
    /\ seq = <<>>
    /\ key = 0

\* One turn of the loop of editorPrompt for key c: the frame, the key's effect
\* on the buffer, the callback.
FindTurn(c) ==
    /\ pc = "find"
    /\ LET buf == PromptBuf(P.buf, c)
           e == editorScroll(E)
           r == editorFindCallback(e, F, buf, c)
       IN /\ Len(buf) <= FindQuery
          /\ E' = r.E
          /\ F' = r.F
          /\ P' = [P EXCEPT !.buf = buf]
          /\ call' = [op |-> "editorFindCallback",
                      arg |-> [e |-> e, f |-> F, query |-> buf, key |-> c],
                      res |-> r]
    /\ UNCHANGED <<statusmsg, quit_times, pc, termios, out, exitcode, ev, qpresses,
                   lim, saved, stream, seq, key>>

FindArrow == \E c \in {ARROW_UP, ARROW_DOWN, ARROW_LEFT, ARROW_RIGHT} : FindTurn(c)

FindType == \E c \in FindChars : FindTurn(c)

FindErase == \E c \in {BACKSPACE, CTRL_H, DEL_KEY} : FindTurn(c)

NextFind ==
    \/ FindArrow
    \/ FindType
    \/ FindErase

SpecFind == InitFind /\ [][NextFind]_vars

(***************************************************************************)
(* The status bar on its own: one call for a file name, a number of rows,  *)
(* a cursor row, a dirty flag and a terminal width.                        *)
(***************************************************************************)
\* The names a document can have: none, or up to BarName characters.
BarNames == {NULL} \cup UNION { [1..n -> NameChars] : n \in 1..BarName }

\* A document of numrows empty rows, changed since it was loaded or not (one
\* without rows has never been changed).
InitBar ==
    /\ \E name \in BarNames, numrows \in 0..BarRows, cols \in 1..BarCols :
          \E cy \in 0..numrows, dirty \in (IF numrows = 0 THEN {0} ELSE {0, 1}) :
             LET e0 == editorOpen(initEditor(3, cols), name, [k \in 1..numrows |-> <<10>>])
             IN call = [op |-> "",
                        arg |-> [e |-> [e0 EXCEPT !.cy = cy, !.dirty = dirty]],
                        res |-> <<>>]
    /\ InitCall

CallDrawStatusBar ==
    /\ Idle
    /\ call' = [call EXCEPT !.op = "editorDrawStatusBar",
                            !.res = editorDrawStatusBar(call.arg.e)]
    /\ NoSession

SpecBar == InitBar /\ [][CallDrawStatusBar]_vars

\* The whole program on a small document: every key, and the failures of the
\* terminal.
NextSession ==
    \/ Next
    \/ KeySave
    \/ KeyQuit
    \/ Main
    \/ MainDie
    \/ RefreshFail
    \/ ReadFail

SpecSession == InitSession /\ [][NextSession]_vars

(***************************************************************************)
(* Properties of the document and the viewport.                            *)
(***************************************************************************)
\* A frame has just been drawn: editorRefreshScreen returned, no key read yet.
AfterFrame == pc = "key"

\* C1: after every frame the cursor row is inside the vertical window,
\* rowoff <= cy < rowoff + screenrows.
C1_CursorRowInWindow ==
    AfterFrame => (E.rowoff <= E.cy /\ E.cy < E.rowoff + E.screenrows)

\* A frame for which the window had to scroll down to the cursor row.
C1_Witness ==
    AfterFrame /\ E.rowoff > 0 /\ E.cy = E.rowoff + E.screenrows - 1

\* C2: after every frame, for every terminal size, the cursor's display column
\* is inside the horizontal window, coloff <= rx < coloff + screencols.
C2_CursorColInWindow ==
    AfterFrame => (E.coloff <= E.rx /\ E.rx < E.coloff + E.screencols)

\* The size of the row under the cursor, 0 on the virtual row past the end.
RowLen(e) == IF e.cy < e.numrows THEN e.row[e.cy + 1].size ELSE 0

\* C3: after every processed keystroke the cursor is in range: 0 <= cy <= numrows
\* and 0 <= cx <= size of row cy (cx = 0 on the virtual row past the end).
C3_CursorInRange ==
    /\ 0 <= E.cy /\ E.cy <= E.numrows
    /\ 0 <= E.cx /\ E.cx <= RowLen(E)

\* A key has moved the cursor from a longer row onto a shorter one, where the
\* column had to be cut to the row's length.
C3_Witness ==
    /\ ev.tag \in {"arrow", "page"}
    /\ E.cy < E.numrows
    /\ E.cx = RowLen(E)
    /\ \E i \in 1..E.numrows : E.row[i].size > RowLen(E)

\* The display column after the first j characters: a tab advances to the next
\* multiple of the tab stop, any other character by one.
RECURSIVE Col(_, _)
Col(chars, j) ==
    IF j = 0 THEN 0
    ELSE IF chars[j] = TAB
         THEN ((Col(chars, j - 1) \div KILO_TAB_STOP) + 1) * KILO_TAB_STOP
         ELSE Col(chars, j - 1) + 1

\* render is the tab expansion of chars, rsize its length, hl one tag per
\* display character: numeric for a digit, default otherwise.
RowConsistent(row) ==
    /\ Len(row.chars) = row.size
    /\ row.rsize = Col(row.chars, row.size)
    /\ Len(row.render) = row.rsize
    /\ Len(row.hl) = row.rsize
    /\ \A j \in 1..row.size :
          IF row.chars[j] = TAB
          THEN /\ Col(row.chars, j) > Col(row.chars, j - 1)
               /\ \A k \in (Col(row.chars, j - 1) + 1)..Col(row.chars, j) :
                     row.render[k] = SPACE
          ELSE row.render[Col(row.chars, j)] = row.chars[j]
    /\ \A k \in 1..row.rsize :
          row.hl[k] = IF row.render[k] \in 48..57 THEN HL_NUMBER ELSE HL_NORMAL

\* C4: at every frame of the main loop (no prompt open), after any sequence of
\* row and editor operations, every row's render is the tab expansion of its
\* chars, rsize is the length of render, and the highlight has length rsize
\* with digits numeric and everything else default.
C4_RowsConsistent ==
    P.mode = "main" => \A i \in 1..E.numrows : RowConsistent(E.row[i])

\* A frame of the main loop on an edited document with a tab behind a digit.
C4_Witness ==
    /\ AfterFrame /\ P.mode = "main" /\ E.dirty > 0
    /\ \E i \in 1..E.numrows : E.row[i].chars = <<49, TAB>> /\ E.row[i].rsize = 8

\* The search prompt has just ended, by Escape or by Enter.
FindEnded == ev.tag \in {"find_esc", "find_enter"}

\* C5: once the search prompt has ended, every row's highlight is what it was
\* when the search began, and no row carries a match tag.
C5_HighlightRestored ==
    FindEnded =>
        /\ Len(P.hl0) = E.numrows
        /\ \A i \in 1..E.numrows :
              /\ E.row[i].hl = P.hl0[i]
              /\ \A k \in 1..Len(E.row[i].hl) : E.row[i].hl[k] # HL_MATCH

\* The prompt ended by Escape after the query "1" had matched: the cursor sits
\* on a digit, which the match had tagged.
C5_Witness ==
    /\ ev.tag = "find_esc"
    /\ P.buf = <<49>>
    /\ E.cy < E.numrows
    /\ E.cx < RowLen(E)
    /\ E.row[E.cy + 1].chars[E.cx + 1] = 49
    /\ <<E.cx, E.cy>> # <<P.saved_cx, P.saved_cy>>

\* C6: when the find prompt ends by Escape the cursor and the offsets are the
\* ones captured when the find command started; when it ends by Enter the
\* cursor stays where the last key of the prompt left it, on the match.
C6_EscRestoresEnterKeeps ==
    [][ /\ (ev'.tag = "find_esc" =>
               /\ E'.cx = P.saved_cx /\ E'.cy = P.saved_cy
               /\ E'.rowoff = P.saved_rowoff /\ E'.coloff = P.saved_coloff)
        /\ (ev'.tag = "find_enter" => (E'.cx = E.cx /\ E'.cy = E.cy)) ]_vars

(***************************************************************************)
(* Properties of the quit confirmation and of the terminal session.        *)
(***************************************************************************)
\* C7: with a dirty document and no other key in between, the process
\* terminates on exactly the 3rd consecutive Ctrl-Q: the state after the 3rd
\* press is the terminated one.
C7_QuitOnThird ==
    E.dirty > 0 =>
        /\ (ev.tag = "quit" => qpresses = KILO_QUIT_TIMES)
        /\ (qpresses >= KILO_QUIT_TIMES => ev.tag = "quit")

\* C7 as the code has it: the first KILO_QUIT_TIMES presses warn and count
\* down, the press after them terminates.
C7_QuitOnFourth ==
    E.dirty > 0 =>
        /\ (ev.tag = "quit" => qpresses = KILO_QUIT_TIMES + 1)
        /\ (qpresses >= KILO_QUIT_TIMES + 1 => (ev.tag = "quit" /\ pc = "exited"))
        /\ (ev.tag = "warn" => (qpresses \in 1..KILO_QUIT_TIMES /\ pc = "refresh"))
        /\ (pc # "exited" /\ P.mode = "main" => quit_times = KILO_QUIT_TIMES - qpresses)

\* The dirty document has been quit.
C7_Witness ==
    E.dirty > 0 /\ ev.tag = "quit" /\ pc = "exited" /\ qpresses = KILO_QUIT_TIMES + 1

\* C8: a key other than Ctrl-Q, once processed, leaves the quit counter at its
\* initial value; and with a clean document one Ctrl-Q terminates.
C8_OtherKeyResets ==
    /\ (P.mode = "main" /\ qpresses = 0 => quit_times = KILO_QUIT_TIMES)
    /\ (E.dirty = 0 /\ qpresses > 0 => (qpresses = 1 /\ ev.tag = "quit" /\ pc = "exited"))

\* Another key came after two warnings and the counter is back at its start.
C8_Witness ==
    /\ E.dirty > 0 /\ pc = "refresh" /\ P.mode = "main"
    /\ ev.tag \notin {"warn", "quit"} /\ ev.q = 2
    /\ quit_times = KILO_QUIT_TIMES

\* C9: on every exit path taken in raw mode the terminal attributes are
\* restored, and what perror writes comes after the restoration.  (When the
\* restoring tcsetattr itself fails there is nothing left to hold the program to
\* but the order.)
C9_RestoreBeforeDiagnostic ==
    pc = "exited" =>
        \E j \in DOMAIN out :
            /\ out[j] \in {"restore", "restore failed"}
            /\ (out[j] = "restore" => termios = "orig")
            /\ \A i \in DOMAIN out : out[i] = "perror" => j < i

(***************************************************************************)
(* Properties of the key decoder.                                          *)
(***************************************************************************)
\* The escape sequences that name a key.
KeyTable ==
    { <<<<ESC, 91, 65>>, ARROW_UP>>, <<<<ESC, 91, 66>>, ARROW_DOWN>>,
      <<<<ESC, 91, 67>>, ARROW_RIGHT>>, <<<<ESC, 91, 68>>, ARROW_LEFT>>,
      <<<<ESC, 91, 72>>, HOME_KEY>>, <<<<ESC, 91, 70>>, END_KEY>>,
      <<<<ESC, 91, 49, 126>>, HOME_KEY>>, <<<<ESC, 91, 55, 126>>, HOME_KEY>>,
      <<<<ESC, 91, 51, 126>>, DEL_KEY>>,
      <<<<ESC, 91, 52, 126>>, END_KEY>>, <<<<ESC, 91, 56, 126>>, END_KEY>>,
      <<<<ESC, 91, 53, 126>>, PAGE_UP>>, <<<<ESC, 91, 54, 126>>, PAGE_DOWN>>,
      <<<<ESC, 79, 72>>, HOME_KEY>>, <<<<ESC, 79, 70>>, END_KEY>> }

\* C10: one call of the decoder returns one key: a first byte other than ESC
\* as itself and alone; the sequences of the table as the keys they name; every
\* other sequence that starts with ESC, cut short by a timeout or not, as ESC.
C10_DecoderTable ==
    ev.tag = "read" =>
        /\ Len(seq) \in 1..4
        /\ \A i \in 1..Len(seq) : seq[i] = TIMEOUT => i = Len(seq) /\ i > 1
        /\ IF seq[1] # ESC THEN key = seq[1] /\ Len(seq) = 1
           ELSE IF \E p \in KeyTable : p[1] = seq
                THEN \E p \in KeyTable : p[1] = seq /\ key = p[2]
                ELSE key = ESC

\* The last call decoded a sequence of the table and emptied the stream.
C10_Witness ==
    /\ ev.tag = "read"
    /\ seq = <<ESC, 91, 54, 126>> /\ key = PAGE_DOWN
    /\ stream = <<>>

(***************************************************************************)
(* Properties of the editing operations.                                   *)
(***************************************************************************)
\* C11: Backspace at column 0 of a row cy > 0 merges the row into the previous
\* one: the merged row is the previous row's content followed by the current
\* row's, there is one row less, the other rows keep content and order, and the
\* cursor ends on row cy - 1 at the previous row's old length.
C11_BackspaceMerges ==
    (call.op = "editorDelChar" /\ call.arg.e.cx = 0
       /\ call.arg.e.cy > 0 /\ call.arg.e.cy < call.arg.e.numrows) =>
        LET a == call.arg.e
            b == call.res
            cy == a.cy
        IN /\ b.numrows = a.numrows - 1
           /\ Len(b.row) = b.numrows
           /\ b.row[cy].chars = a.row[cy].chars \o a.row[cy + 1].chars
           /\ b.row[cy].size = a.row[cy].size + a.row[cy + 1].size
           /\ \A i \in 1..(cy - 1) : b.row[i] = a.row[i]
           /\ \A i \in (cy + 1)..b.numrows : b.row[i] = a.row[i + 1]
           /\ b.cy = cy - 1
           /\ b.cx = a.row[cy].size

\* The middle row of three, with content, has been merged into the first.
C11_Witness ==
    /\ call.op = "editorDelChar"
    /\ call.arg.e.numrows = 3 /\ call.arg.e.cy = 1 /\ call.arg.e.cx = 0
    /\ call.arg.e.row[1].size > 0 /\ call.arg.e.row[2].size > 0
    /\ call.res.numrows = 2 /\ call.res.cy = 0

\* The contents of the rows from row i on, one after the other.
RECURSIVE Contents(_, _)
Contents(e, i) ==
    IF i > e.numrows THEN <<>>
    ELSE SubSeq(e.row[i].chars, 1, e.row[i].size) \o Contents(e, i + 1)

\* C12: editorInsertNewline at (cx, cy) inserts an empty row before row cy when
\* cx = 0 and otherwise splits row cy at cx into the first cx characters and a
\* new row cy + 1 with the rest; there is one row more, the contents of all the
\* rows together are unchanged, no other row changes and the cursor ends at
\* (0, cy + 1).
C12_NewlineSplits ==
    call.op = "editorInsertNewline" =>
        LET a == call.arg.e
            b == call.res
            cy == a.cy
        IN /\ b.numrows = a.numrows + 1
           /\ Len(b.row) = b.numrows
           /\ Contents(b, 1) = Contents(a, 1)
           /\ b.cx = 0 /\ b.cy = cy + 1
           /\ \A i \in 1..cy : b.row[i] = a.row[i]
           /\ IF a.cx = 0
              THEN /\ b.row[cy + 1].size = 0 /\ b.row[cy + 1].chars = <<>>
                   /\ \A i \in (cy + 1)..a.numrows : b.row[i + 1] = a.row[i]
              ELSE /\ b.row[cy + 1].size = a.cx
                   /\ b.row[cy + 1].chars = SubSeq(a.row[cy + 1].chars, 1, a.cx)
                   /\ b.row[cy + 2].size = a.row[cy + 1].size - a.cx
                   /\ b.row[cy + 2].chars
                         = SubSeq(a.row[cy + 1].chars, a.cx + 1, a.row[cy + 1].size)
                   /\ \A i \in (cy + 2)..a.numrows : b.row[i + 1] = a.row[i]

\* A row of two characters, with a row behind it, has been split in the middle.
C12_Witness ==
    /\ call.op = "editorInsertNewline"
    /\ call.arg.e.cx = 1 /\ call.arg.e.cy < call.arg.e.numrows - 1
    /\ call.arg.e.row[call.arg.e.cy + 1].size = 2
    /\ call.res.row[call.arg.e.cy + 2].size = 1

\* C13: inserting c at column at of a row, 0 <= at <= size, and then deleting at
\* column at gives the row back: size, bytes and what is derived from them.
C13_InsertDeleteRestores ==
    call.op = "insert, delete" =>
        LET a == call.arg.e
            r == a.cy + 1
        IN /\ call.res.mid.row[r].size = a.row[r].size + 1
           /\ call.res.mid.row[r].chars[a.cx + 1] = call.res.c
           /\ call.res.e.row[r] = a.row[r]
           /\ call.res.e.row = a.row

\* A tab went into the middle of a row of two digits and out again.
C13_Witness ==
    /\ call.op = "insert, delete"
    /\ call.res.c = TAB /\ call.arg.e.cx = 1
    /\ call.arg.e.row[call.arg.e.cy + 1].chars = <<49, 49>>
    /\ call.res.mid.row[call.arg.e.cy + 1].rsize = 9
    /\ call.res.e.row[call.arg.e.cy + 1].rsize = 2

\* The bytes of a file, given as its lines with their terminators.
RECURSIVE FileBytes(_, _)
FileBytes(lines, k) ==
    IF k > Len(lines) THEN <<>> ELSE lines[k] \o FileBytes(lines, k + 1)

\* C18: a file of N lines, each terminated by one newline, loaded and written
\* back without edits gives the bytes of the file.
C18_LoadSaveIdentical ==
    call.op = "editorRowsToString" => call.res = FileBytes(call.arg.lines, 1)

\* No line of the file has a carriage return right before its newline.
NoCRLF(lines) ==
    \A k \in 1..Len(lines) :
        Len(lines[k]) >= 2 => lines[k][Len(lines[k]) - 1] # CR

\* C18 for the files the code keeps as they are: those without a carriage
\* return at the end of a line.
C18_LoadSaveIdenticalNoCR ==
    (call.op = "editorRowsToString" /\ NoCRLF(call.arg.lines)) =>
        /\ call.res = FileBytes(call.arg.lines, 1)
        /\ call.arg.e.numrows = Len(call.arg.lines)

\* Three lines, one empty and one with a carriage return inside, written back.
C18_Witness ==
    /\ call.op = "editorRowsToString"
    /\ call.arg.lines = << <<CR, 49, 10>>, <<10>>, <<TAB, 10>> >>
    /\ call.res = <<CR, 49, 10, 10, TAB, 10>>

(***************************************************************************)
(* Properties of the column conversions.                                   *)
(***************************************************************************)
\* C14: for every row, with or without tabs, and every cx in 0..size,
\* rxToCx(row, cxToRx(row, cx)) = cx.
C14_RoundTrip ==
    call.op = "editorRowRxToCx" => call.res.cx = call.arg.cx

\* The round trip of a column behind a tab, in a row that goes on.
C14_Witness ==
    /\ call.op = "editorRowRxToCx"
    /\ call.arg.row.chars = <<49, TAB, 49>>
    /\ call.arg.cx = 2 /\ call.res.rx = 8 /\ call.res.cx = 2

\* One of the first cx characters of the row is a tab.
TabBefore(row, cx) == \E j \in 1..cx : row.chars[j] = TAB

\* C15: rx = cxToRx(row, cx) is at least cx, and equal to cx if and only if none
\* of the first cx characters is a tab.
C15_RxEqualIffNoTab ==
    call.op = "editorRowCxToRx" =>
        /\ call.res >= call.arg.cx
        /\ (call.res = call.arg.cx <=> ~TabBefore(call.arg.row, call.arg.cx))

\* C15 as the code has it: rx >= cx; rx = cx when no tab precedes cx, and
\* otherwise only when every tab before cx stands in the last column before a
\* tab stop, where it is one column wide.
C15_RxEqualIffNarrowTabs ==
    call.op = "editorRowCxToRx" =>
        /\ call.res >= call.arg.cx
        /\ (~TabBefore(call.arg.row, call.arg.cx) => call.res = call.arg.cx)
        /\ (call.res = call.arg.cx <=>
               \A j \in 1..call.arg.cx :
                   call.arg.row.chars[j] = TAB => j % KILO_TAB_STOP = 0)

\* A tab as the eighth character: a tab precedes cx = 8 and rx = 8.
C15_Witness ==
    /\ call.op = "editorRowCxToRx"
    /\ call.arg.row.chars = <<49, 49, 49, 49, 49, 49, 49, TAB>>
    /\ call.arg.cx = 8 /\ call.res = 8

(***************************************************************************)
(* Properties of the search step.                                          *)
(***************************************************************************)
SearchStep == call.op = "editorFindCallback"

\* The query occurs in the render of row i (counted from 0) of document e.
Contains(e, i, query) ==
    \E k \in 0..(e.row[i + 1].rsize - Len(query)) :
        \A j \in 1..Len(query) : e.row[i + 1].render[k + j] = query[j]

IsArrow(c) == c \in {ARROW_UP, ARROW_DOWN, ARROW_LEFT, ARROW_RIGHT}

\* The last match a step starts from: the one of the step before when the key
\* is an arrow, none (-1) after any other key.
StartFrom == IF IsArrow(call.arg.key) THEN call.arg.f.last_match ELSE -1

\* The direction of the step: forward when there is no last match.
StepDir ==
    IF StartFrom # -1 /\ call.arg.key \in {ARROW_UP, ARROW_LEFT} THEN -1 ELSE 1

\* The k-th row the step visits, k = 1..numrows, going round the document.
Visit(k) == (StartFrom + StepDir * k + call.arg.e.numrows) % call.arg.e.numrows

\* The visits that find the query.
Hits == { k \in 1..call.arg.e.numrows : Contains(call.arg.e, Visit(k), call.arg.query) }

\* C16: a search step with a non-empty query visits the rows one step from
\* last_match in the current direction (from row 0 when there is none), going
\* round the document once, and selects the first visited row whose render
\* contains the query; when the only matching row is row 0 a forward step lands
\* on row 0, and so does the next one.
C16_SearchVisitsInOrder ==
    (SearchStep /\ Len(call.arg.query) > 0) =>
        /\ IF Hits = {}
           THEN /\ call.res.F.last_match = StartFrom
                /\ call.res.E.cy = call.arg.e.cy
           ELSE LET k == CHOOSE h \in Hits : \A g \in Hits : h <= g
                IN /\ call.res.F.last_match = Visit(k)
                   /\ call.res.E.cy = Visit(k)
        /\ ((/\ call.arg.e.numrows > 0
             /\ \A i \in 0..(call.arg.e.numrows - 1) :
                   Contains(call.arg.e, i, call.arg.query) <=> i = 0
             /\ call.arg.key \notin {ARROW_UP, ARROW_LEFT})
            => (call.res.F.last_match = 0 /\ call.res.E.cy = 0))

\* The second forward step in a document of three rows whose only match is in
\* row 0: it starts from row 0, goes round and lands on row 0.
C16_Witness ==
    /\ SearchStep
    /\ call.arg.query = <<49>>
    /\ call.arg.e.numrows = 3
    /\ call.arg.key = ARROW_DOWN
    /\ call.arg.f.last_match = 0
    /\ Hits = {3}
    /\ call.res.F.last_match = 0 /\ call.res.E.cy = 0

\* C19: a key of the search prompt met with an empty query performs no search
\* step: cursor, offsets and every row's highlight stay as they are.
C19_EmptyQueryNoStep ==
    (SearchStep /\ call.arg.query = <<>>) =>
        /\ call.res.E.cx = call.arg.e.cx
        /\ call.res.E.cy = call.arg.e.cy
        /\ call.res.E.rowoff = call.arg.e.rowoff
        /\ call.res.E.coloff = call.arg.e.coloff
        /\ \A i \in 1..call.arg.e.numrows : call.res.E.row[i].hl = call.arg.e.row[i].hl

\* C20: a search step whose query is in no row's render leaves the cursor and
\* the offsets as they are, leaves last_match as the step found it, and no row
\* carries a match tag after it.
C20_NoMatchNoMove ==
    (SearchStep /\ Hits = {}
       /\ \A i \in 0..(call.arg.e.numrows - 1) :
             ~Contains(call.arg.e, i, call.arg.query)) =>
        /\ call.res.E.cx = call.arg.e.cx
        /\ call.res.E.cy = call.arg.e.cy
        /\ call.res.E.rowoff = call.arg.e.rowoff
        /\ call.res.E.coloff = call.arg.e.coloff
        /\ call.res.F.last_match = StartFrom
        /\ call.res.F.saved_hl = NULL
        /\ \A i \in 1..call.res.E.numrows :
              \A k \in 1..Len(call.res.E.row[i].hl) : call.res.E.row[i].hl[k] # HL_MATCH

\* A second character made the query one that no row contains, with the cursor
\* on the match of the first: the cursor stays, the match tag is gone.
C20_Witness ==
    /\ SearchStep
    /\ Len(call.arg.query) = 2
    /\ call.arg.f.last_match = 1
    /\ call.arg.e.cy = 1
    /\ \E k \in 1..Len(call.arg.e.row[2].hl) : call.arg.e.row[2].hl[k] = HL_MATCH
    /\ Hits = {}
    /\ call.res.E.cy = 1

(***************************************************************************)
(* Properties of saving.                                                   *)
(***************************************************************************)
\* C17: a save that fails or is aborted at the file-name prompt does not end the
\* process, sets a status message and leaves the rows and the dirty counter as
\* they were; only a save that wrote everything resets dirty to 0.
C17_FailedSaveKeepsDocument ==
    [][ /\ (ev'.tag \in {"save", "save_abort"}
              /\ statusmsg'.tag # "bytes written to disk") =>
               /\ pc' = "refresh" /\ exitcode' = -1
               /\ statusmsg'.tag \in {"Can't save! I/O error", "Save aborted"}
               /\ E'.numrows = E.numrows /\ E'.row = E.row
               /\ E'.dirty = E.dirty
        /\ (E'.dirty = 0 /\ E.dirty # 0) =>
               (ev'.tag = "save" /\ statusmsg'.tag = "bytes written to disk") ]_vars

\* A save of a dirty document has failed and the editor goes on, still dirty.
C17_Witness ==
    /\ ev.tag = "save"
    /\ statusmsg.tag = "Can't save! I/O error"
    /\ pc = "refresh"
    /\ E.dirty > 0 /\ E.numrows > 0

(***************************************************************************)
(* Properties of the keys of the search prompt.                            *)
(***************************************************************************)
\* The row a step lands on when it starts from last match `from` (-1: none) and
\* goes in direction dir once round the document: the first visited row whose
\* render contains the query, `from` when there is none.
Landing(from, dir) ==
    LET n == call.arg.e.numrows
        order == [k \in 1..n |-> (from + dir * k + n) % n]
        found == { k \in 1..n : Contains(call.arg.e, order[k], call.arg.query) }
    IN IF found = {} THEN from
       ELSE order[CHOOSE k \in found : \A g \in found : k <= g]

\* C21 as stated: Right or Down makes the step run forward and Left or Up makes
\* it run backward, with or without a previous match; any other key resets
\* last_match and the direction, so the step searches forward from row 0.
C21_ArrowSetsDirection ==
    SearchStep =>
        LET k == call.arg.key
            m == call.arg.f.last_match
        IN /\ k \in {ARROW_RIGHT, ARROW_DOWN} =>
                 /\ call.res.F.direction = 1
                 /\ call.res.F.last_match = Landing(m, 1)
           /\ k \in {ARROW_LEFT, ARROW_UP} =>
                 /\ call.res.F.direction = -1
                 /\ m # -1 => call.res.F.last_match = Landing(m, -1)
           /\ ~IsArrow(k) =>
                 /\ call.res.F.direction = 1
                 /\ call.res.F.last_match = Landing(-1, 1)

\* C21: Right or Down makes the step run forward from last_match; Left or Up
\* makes it run backward from last_match when there is a previous match, and
\* forward from row 0 when there is none; any other key resets last_match and
\* the direction, so the step searches forward from row 0.
C21_ArrowSetsDirectionAfterMatch ==
    SearchStep =>
        LET k == call.arg.key
            m == call.arg.f.last_match
        IN /\ k \in {ARROW_RIGHT, ARROW_DOWN} =>
                 /\ call.res.F.direction = 1
                 /\ call.res.F.last_match = Landing(m, 1)
           /\ (k \in {ARROW_LEFT, ARROW_UP} /\ m # -1) =>
                 /\ call.res.F.direction = -1
                 /\ call.res.F.last_match = Landing(m, -1)
           /\ (k \in {ARROW_LEFT, ARROW_UP} /\ m = -1) =>
                 /\ call.res.F.direction = 1
                 /\ call.res.F.last_match = Landing(-1, 1)
           /\ ~IsArrow(k) =>
                 /\ call.res.F.direction = 1
                 /\ call.res.F.last_match = Landing(-1, 1)

\* An Up key with the last match on row 1 of three rows that all contain the
\* query: the step goes backward and lands on row 0, where a forward step would
\* have landed on row 2.
C21_Witness ==
    /\ SearchStep
    /\ call.arg.key = ARROW_UP
    /\ call.arg.e.numrows = 3
    /\ call.arg.f.last_match = 1
    /\ Landing(1, 1) = 2
    /\ call.res.F.direction = -1
    /\ call.res.F.last_match = 0 /\ call.res.E.cy = 0

(***************************************************************************)
(* Properties of the status bar.                                           *)
(***************************************************************************)
\* The bytes of the status bar line between the two escape sequences.
BarVisible == SubSeq(call.res, 5, Len(call.res) - 5)

\* The left text, written out: the name cut to 20 characters or "[No Name]",
\* " - ", the number of rows, " lines " and, for a changed document,
\* "(modified)".
BarLeft ==
    LET e == call.arg.e
        name == IF e.filename = NULL THEN StrNoName
                ELSE [k \in 1..(IF Len(e.filename) > 20 THEN 20 ELSE Len(e.filename)) |->
                         e.filename[k]]
    IN name \o <<32, 45, 32>> \o FormatInt(e.numrows)
       \o <<32, 108, 105, 110, 101, 115, 32>>
       \o (IF e.dirty = 0 THEN <<>> ELSE StrModified)

\* The right text: the cursor's row counted from 1, "/", the number of rows.
BarRight == FormatInt(call.arg.e.cy + 1) \o <<47>> \o FormatInt(call.arg.e.numrows)

\* C22: the status bar line is the reverse-video escape, exactly screencols
\* visible characters, the reset escape and a line end; the visible characters
\* are the left text cut to the width, or the left text, spaces and, when both
\* texts fit, the right text ending in the last column.
C22_StatusBarWidth ==
    call.op = "editorDrawStatusBar" =>
        LET cols == call.arg.e.screencols
            n == Len(call.res)
            v == BarVisible
        IN /\ n >= 9
           /\ SubSeq(call.res, 1, 4) = <<ESC, 91, 55, 109>>
           /\ SubSeq(call.res, n - 4, n) = <<ESC, 91, 109, 13, 10>>
           /\ Len(v) = cols
           /\ \A k \in 1..cols : v[k] >= 32 /\ v[k] < 127
           /\ IF Len(BarLeft) >= cols
              THEN v = SubSeq(BarLeft, 1, cols)
              ELSE /\ SubSeq(v, 1, Len(BarLeft)) = BarLeft
                   /\ IF Len(BarLeft) + Len(BarRight) <= cols
                      THEN /\ SubSeq(v, cols - Len(BarRight) + 1, cols) = BarRight
                           /\ \A k \in (Len(BarLeft) + 1)..(cols - Len(BarRight)) :
                                 v[k] = SPACE
                      ELSE \A k \in (Len(BarLeft) + 1)..cols : v[k] = SPACE

\* A bar with both texts and spaces between them, for a name longer than 20
\* characters and a two-digit row count.
C22_Witness ==
    /\ call.op = "editorDrawStatusBar"
    /\ call.arg.e.filename # NULL /\ Len(call.arg.e.filename) > 20
    /\ call.arg.e.numrows = 10
    /\ Len(BarLeft) + Len(BarRight) < call.arg.e.screencols
    /\ Len(BarVisible) = call.arg.e.screencols

(***************************************************************************)
(* Properties of the dirty counter.                                        *)
(***************************************************************************)
\* The keys that only move the cursor, search or redraw, and the frame.
ViewingStep(tag) ==
    tag \in {"arrow", "page", "homeend", "noop", "frame", "prompt", "find_esc", "find_enter"}

\* C23: whenever the rows differ from those last loaded or saved, dirty is not
\* 0; and a step that only moves the cursor, runs a search or redraws changes
\* neither dirty nor the rows.
C23_DirtyTracksChanges ==
    /\ [](Rows(E) # saved => E.dirty # 0)
    /\ [][ViewingStep(ev'.tag) => (E'.dirty = E.dirty /\ Rows(E') = Rows(E))]_vars

\* A document changed after a save that succeeded: the rows differ from the
\* saved ones, which differ from the ones loaded.
C23_Witness ==
    /\ pc = "key"
    /\ saved = << <<>> >>
    /\ Rows(E) = << <<TAB>> >>
    /\ E.dirty # 0
    /\ E.filename # NULL

(***************************************************************************)
(* Properties of the viewport offsets.                                     *)
(***************************************************************************)
\* C24: the viewport offsets are never negative, so the slice of a row drawn
\* from index coloff starts inside the row.
C24_OffsetsNonNegative == E.rowoff >= 0 /\ E.coloff >= 0

(***************************************************************************)
(* Properties of the Delete key.                                           *)
(***************************************************************************)
\* C25: the Delete key leaves the cursor where it was; it removes the character
\* at the cursor, or at the end of a row that has a following row joins that row
\* onto it, and changes nothing when nothing follows the cursor.
C25_DeleteKeepsCursor ==
    call.op = "DEL_KEY" =>
        LET a == call.arg.e
            b == call.res
            r == a.cy + 1
        IN /\ b.cx = a.cx /\ b.cy = a.cy
           /\ IF a.cy < a.numrows /\ a.cx < a.row[r].size
              THEN Rows(b) = [Rows(a) EXCEPT ![r] =
                                 SubSeq(@, 1, a.cx) \o SubSeq(@, a.cx + 2, Len(@))]
              ELSE IF a.cy < a.numrows - 1
              THEN Rows(b) = [i \in 1..(a.numrows - 1) |->
                                 IF i < r THEN Rows(a)[i]
                                 ELSE IF i = r THEN Rows(a)[r] \o Rows(a)[r + 1]
                                 ELSE Rows(a)[i + 1]]
              ELSE Rows(b) = Rows(a)

====
